---- MODULE Spec2Model ----
(***************************************************************************)
(* A model of src/checkin.py, the mjjbox check-in script: the credential   *)
(* loader, the login step, the three-strategy check-in step, the profile   *)
(* probe, the notification sink and the retry loop of main.                *)
(*                                                                         *)
(* Text is abstracted to what the code reads of it.  A check-in response   *)
(* is the record of its status code, the success keywords its lowercased   *)
(* text contains, the kind of its first form, the result of                *)
(* extract_human_message and the mined statistics.  Chinese characters are *)
(* written in pinyin ("qian" "dao" for the two characters of "check-in").  *)
(*                                                                         *)
(* The only calls that fail are the ones the code can be seen to guard or  *)
(* that are known to reject their input: an HTTP request raises a          *)
(* transport error; urljoin raises ValueError on a malformed target.       *)
(***************************************************************************)
EXTENDS Integers, Sequences, FiniteSets, TLC

\* ------------------------------------------------------------- bounds
\* The largest --retries value the runs are given.
MaxRetries == 3
\* The most lines a credentials file holds.
MaxLines == 3

\* ---------------------------------------------------------- constants
DEFAULT_BASE == "https://mjjbox.com"
LOGIN_PATH == "/login"
CHECKIN_PATH == "/checkin"
PROFILE_PATHS == <<"/user", "/user/profile", "/profile", "/member", "/my", "/home", "/dashboard">>

\* An optional value: <<>> is Python's None, <<v>> is the value v.
None == <<>>
Some(v) == <<v>>

\* ------------------------------------------------- load_credentials
\* A line of the file as lines 41-46 read it: blank, a comment, a line
\* without "=", or key = value (both already stripped).
Line(kind, k, v) == [kind |-> kind, k |-> k, v |-> v]
KV(k, v) == Line("kv", k, v)

\* data[k] = v on a dict kept in insertion order.
DictSet(data, k, v) ==
    IF \E i \in DOMAIN data : data[i].k = k
    THEN [i \in DOMAIN data |-> IF data[i].k = k THEN [k |-> k, v |-> v] ELSE data[i]]
    ELSE Append(data, [k |-> k, v |-> v])

\* data.get(k)
DictGet(data, k) ==
    IF \E i \in DOMAIN data : data[i].k = k
    THEN Some(data[CHOOSE i \in DOMAIN data : data[i].k = k].v)
    ELSE None

RECURSIVE ParseLines(_, _)
ParseLines(lines, data) ==
    IF lines = <<>> THEN data
    ELSE LET l == Head(lines) IN
         ParseLines(Tail(lines), IF l.kind = "kv" THEN DictSet(data, l.k, l.v) ELSE data)

\* Python truthiness of an optional string, and "a or b".
Truthy(o) == o # None /\ o[1] # ""
Or(a, b) == IF Truthy(a) THEN a ELSE b

\* k.lower() on the keys the files use.
KeyLower(k) == IF k = "Password" THEN "password" ELSE k

\* next((v for k, v in data.items() if k.lower() not in (...)), None)
RECURSIVE FirstOther(_)
FirstOther(data) ==
    IF data = <<>> THEN None
    ELSE IF KeyLower(Head(data).k) \notin {"password", "passwd", "pass", "serverchan", "base"}
         THEN Some(Head(data).v)
         ELSE FirstOther(Tail(data))

CredError(e) == [err |-> e, username |-> "", password |-> "", serverchan |-> "", base |-> ""]

load_credentials(file) ==
    IF ~file.exists THEN CredError("FileNotFoundError")
    ELSE LET data == ParseLines(file.lines, <<>>)
             base == IF DictGet(data, "base") = None THEN DEFAULT_BASE ELSE DictGet(data, "base")[1]
             username == Or(DictGet(data, "username"), Or(DictGet(data, "email"), FirstOther(data)))
             password == Or(DictGet(data, "password"), Or(DictGet(data, "passwd"), DictGet(data, "pass")))
             serverchan == IF Truthy(DictGet(data, "serverchan")) THEN DictGet(data, "serverchan")[1] ELSE ""
         IN  IF data = <<>> THEN CredError("ValueError: empty")
             ELSE IF ~Truthy(username) \/ ~Truthy(password)
                  THEN CredError("ValueError: no username or password")
                  ELSE [err |-> "none", username |-> username[1], password |-> password[1],
                        serverchan |-> serverchan, base |-> base]

\* The lines the credentials files are made of.
CredLines ==
    { Line("comment", "", ""), Line("noeq", "", ""),
      KV("username", "u"), KV("username", ""), KV("id", "u"),
      KV("password", "p"), KV("Password", "p"), KV("serverchan", "SCTkey") }

RECURSIVE SeqsUpTo(_, _)
SeqsUpTo(S, n) ==
    IF n = 0 THEN {<<>>}
    ELSE LET shorter == SeqsUpTo(S, n - 1) IN
         shorter \cup {Append(s, x) : s \in shorter, x \in S}

\* The credentials files a run may find: none, or up to MaxLines lines.
CredFiles ==
    {[exists |-> FALSE, lines |-> <<>>]}
    \cup {[exists |-> TRUE, lines |-> ls] : ls \in SeqsUpTo(CredLines, MaxLines)}

\* ------------------------------------------------ names and hints
\* A field name is the sequence of its characters, so that "h in lname"
\* (lines 75, 77, 142) is a substring test.  <<>> is a missing or empty name.
USER_HINTS == <<<<"u", "s", "e", "r">>, <<"u", "s", "e", "r", "n", "a", "m", "e">>, <<"e", "m", "a", "i", "l">>, <<"l", "o", "g", "i", "n">>, <<"a", "c", "c", "o", "u", "n", "t">>>>
PASS_HINTS == <<<<"p", "a", "s", "s">>, <<"p", "a", "s", "s", "w", "o", "r", "d">>, <<"p", "a", "s", "s", "w", "d">>, <<"p", "w", "d">>>>

\* str.lower() on the letters the modelled names and types use.
LowerChar(c) ==
    CASE c = "P" -> "p" [] c = "U" -> "u" [] c = "L" -> "l" [] OTHER -> c
Lower(name) == [i \in DOMAIN name |-> LowerChar(name[i])]
TypeLower(t) == IF t = "PASSWORD" THEN "password" ELSE t

\* h in s
Contains(h, s) ==
    \E i \in 1..(Len(s) - Len(h) + 1) : SubSeq(s, i, i + Len(h) - 1) = h
\* any(h in lname for h in hints)
HintIn(hints, lname) == \E k \in DOMAIN hints : Contains(hints[k], lname)

\* An <input>: its name attribute, its raw type attribute ("" when absent)
\* and its value attribute.
Input(name, type, value) == [name |-> name, type |-> type, value |-> value]
\* (inp.get("type") or "text").lower()
Typ(inp) == IF inp.type = "" THEN "text" ELSE TypeLower(inp.type)

\* --------------------------------------------------- find_login_form
NoFields == [uname |-> None, pwd |-> None, hidden |-> <<>>]

IsPassField(inp) == Typ(inp) = "password" \/ HintIn(PASS_HINTS, Lower(inp.name))
IsUserField(inp) == Typ(inp) \in {"text", "email"} \/ HintIn(USER_HINTS, Lower(inp.name))

\* The loop over a form's inputs, lines 66-79.
RECURSIVE ScanInputs(_, _)
ScanInputs(inputs, acc) ==
    IF inputs = <<>> THEN acc
    ELSE LET inp == Head(inputs) IN
         ScanInputs(Tail(inputs),
            IF inp.name = <<>> THEN acc
            ELSE IF Typ(inp) = "hidden"
                 THEN [acc EXCEPT !.hidden = DictSet(@, inp.name, inp.value)]
                 ELSE [acc EXCEPT
                         !.pwd = IF IsPassField(inp) THEN Some(inp.name) ELSE @,
                         !.uname = IF IsUserField(inp) /\ @ = None THEN Some(inp.name) ELSE @])

FormNotFound == [found |-> FALSE, form |-> 0, uname |-> None, pwd |-> None, hidden |-> <<>>]

RECURSIVE FindFrom(_, _)
FindFrom(doc, i) ==
    IF i > Len(doc) THEN FormNotFound
    ELSE LET acc == ScanInputs(doc[i].inputs, NoFields) IN
         IF acc.pwd # None
         THEN [found |-> TRUE, form |-> i, uname |-> acc.uname, pwd |-> acc.pwd, hidden |-> acc.hidden]
         ELSE FindFrom(doc, i + 1)

\* A document is the sequence of its forms, a form its action attribute and
\* the sequence of its inputs.
find_login_form(doc) == FindFrom(doc, 1)

\* ------------------------------------------- build_payload_from_form
RECURSIVE PayloadInputs(_, _, _, _, _, _)
PayloadInputs(inputs, uname, pwd, uval, pval, payload) ==
    IF inputs = <<>> THEN payload
    ELSE LET inp == Head(inputs) IN
         PayloadInputs(Tail(inputs), uname, pwd, uval, pval,
            IF inp.name = <<>> \/ Typ(inp) \in {"submit", "button"} THEN payload
            ELSE IF Some(inp.name) = uname THEN DictSet(payload, inp.name, uval)
            ELSE IF Some(inp.name) = pwd THEN DictSet(payload, inp.name, pval)
            ELSE DictSet(payload, inp.name, inp.value))

RECURSIVE AddHidden(_, _)
AddHidden(hidden, payload) ==
    IF hidden = <<>> THEN payload
    ELSE AddHidden(Tail(hidden),
            IF DictGet(payload, Head(hidden).k) = None
            THEN DictSet(payload, Head(hidden).k, Head(hidden).v)
            ELSE payload)

build_payload_from_form(form, uname, pwd, uval, pval, hidden) ==
    AddHidden(hidden, PayloadInputs(form.inputs, uname, pwd, uval, pval, <<>>))

\* ------------------------------------------------- heuristic_payload
\* heuristic_payload, had the two loops of lines 108-109 been nested the
\* other way round.
heuristic_payload_PassFirst(uval, pval) ==
    [n \in 1..(Len(USER_HINTS) * Len(PASS_HINTS)) |->
        LET u == USER_HINTS[((n - 1) % Len(USER_HINTS)) + 1]
            p == PASS_HINTS[((n - 1) \div Len(USER_HINTS)) + 1]
        IN  <<[k |-> u, v |-> uval], [k |-> p, v |-> pval]>>]

\* {u: username_value, p: password_value}
Combo(u, p, uval, pval) == DictSet(DictSet(<<>>, u, uval), p, pval)

RECURSIVE PassLoop(_, _, _, _, _)
PassLoop(u, j, uval, pval, combos) ==
    IF j > Len(PASS_HINTS) THEN combos
    ELSE PassLoop(u, j + 1, uval, pval, Append(combos, Combo(u, PASS_HINTS[j], uval, pval)))

RECURSIVE UserLoop(_, _, _, _)
UserLoop(i, uval, pval, combos) ==
    IF i > Len(USER_HINTS) THEN combos
    ELSE UserLoop(i + 1, uval, pval, PassLoop(USER_HINTS[i], 1, uval, pval, combos))

heuristic_payload(uval, pval) == UserLoop(1, uval, pval, <<>>)

\* ------------------------------------------------- HTTP exchanges
\* A request, as the per-attempt trace records it.
Req(m, url) == [m |-> m, url |-> url]

\* The four statistics of extract_stats_from_html, each None or Some(n).
STAT_KEYS == {"total_checkins", "consecutive", "total_points", "gained"}
NoStats == [k \in STAT_KEYS |-> None]
\* The empty dict {} a failed attempt returns.
EmptyDict == [k \in {} |-> None]

\* The keywords of lines 275, 305 and 320 (pinyin for the two Chinese ones).
GET_KEYWORDS == {"qiandao chenggong", "yi qiandao", "success", "already"}
POST_KEYWORDS == {"qiandao chenggong", "yi qiandao", "success"}

\* What the transport gives back: a transport error, or a response.
NoResp == [kind |-> "none", status |-> 0, markers |-> {}, form |-> "none", msg |-> "", stats |-> NoStats]
ErrorResp == [NoResp EXCEPT !.kind = "error"]
Body(status, markers, form, msg, stats) ==
    [kind |-> "response", status |-> status, markers |-> markers, form |-> form, msg |-> msg, stats |-> stats]

\* The statistics a check-in response and a profile page may show.
BodyStats == {NoStats, [NoStats EXCEPT !.total_checkins = Some(10), !.gained = Some(5)]}
ProfileStats == {NoStats, [NoStats EXCEPT !.total_checkins = Some(9), !.consecutive = Some(3), !.total_points = Some(120)]}

\* The keyword sets a response text may contain.
MarkerSets == {{}, {"success"}, {"already"}}
\* The first form of a page: none, one without an action, one with an
\* action, one whose action urljoin rejects (such as "http://[").
FormKinds == {"none", "noaction", "action", "badaction"}

\* The responses to the GET of the check-in page, and to a POST.
GetBodies ==
    {Body(st, k, f, m, s) : st \in {200, 500}, k \in MarkerSets, f \in FormKinds,
                             m \in {"", "m"}, s \in {NoStats}}
    \cup {Body(200, k, "none", "m", s) : k \in MarkerSets \ {{}}, s \in BodyStats}
PostBodies ==
    {Body(st, k, "none", m, s) : st \in {200, 500}, k \in MarkerSets, m \in {"", "m"}, s \in {NoStats}}
    \cup {Body(200, {"success"}, "none", "m", s) : s \in BodyStats}
\* The answers of a profile page.
ProfilePages == {ErrorResp} \cup {Body(st, {}, "none", "", s) : st \in {200, 500}, s \in ProfileStats}
\* The answers of the login endpoint and the site root: only whether the
\* text shows a login keyword (lines 162, 167, 178, 183) is read.
LoginAnswers == {"error", "marker", "nomarker"}
\* The answers of the notification service.
SendAnswers == {"200", "non200", "error"}

\* Login pages: no form; a form with a password field; the same with an
\* action that urljoin rejects.
UserInput == Input(<<"u", "s", "e", "r">>, "text", "")
PwdInput == Input(<<"p", "w", "d">>, "password", "")
TokenInput == Input(<<"t", "o", "k">>, "hidden", "v")
LoginPages ==
    { <<>>,
      <<[action |-> "", inputs |-> <<UserInput>>]>>,
      <<[action |-> "/do_login", inputs |-> <<TokenInput, UserInput, PwdInput>>]>>,
      <<[action |-> "http://[", inputs |-> <<UserInput, PwdInput>>]>> }

\* urljoin(base, target) raises ValueError on a malformed target.
UrlJoinRaises(target) == target = "http://["

\* ------------------------------------------------------------ state
VARIABLES
    pc,               \* where the run is
    retries,          \* args.retries
    cred,             \* the dict load_credentials returned
    cred_error,       \* the exception load_credentials raised, or "none"
    exit_code,        \* the process exit status, -1 while running
    uncaught,         \* the run ended by an exception nothing caught
    login_result,     \* what try_login did: "none", "true", "false", "raised"
    logged_in,        \* main's logged_in
    login,            \* try_login's locals and the answer to its last request
    net,              \* requests issued so far, by purpose
    attempt,          \* checkin_with_retries' attempt
    failure_reasons,  \* checkin_with_retries' failure_reasons
    calls,            \* invocations of do_checkin_once so far
    verdicts,         \* what each of them returned, in order
    reqs,             \* the requests of the current attempt, in order
    get_resp,         \* what do_checkin_once classified of r, until the profile probe
    post_resp,        \* what it classified of r2 or rpost, likewise
    pending,          \* a success verdict waiting for the profile probe
    p_idx,            \* fetch_profile_stats' position in PROFILE_PATHS
    p_resp,           \* what it read of the last profile page it asked for
    result,           \* what do_checkin_once returned
    log,              \* attempts, delays and notifications, in order
    last_send,        \* the outcome of the last send_serverchan call
    doc,              \* the document given to find_login_form
    form_res,         \* what find_login_form returned
    payloads,         \* the payloads built for that document
    html,             \* the text given to extract_stats_from_html
    stats_out         \* what it returned

runVars == <<retries, cred, cred_error, exit_code, uncaught>>
loginVars == <<login_result, logged_in, login>>
loopVars == <<attempt, failure_reasons, calls, verdicts, log, last_send>>
stepVars == <<reqs, get_resp, post_resp, pending, p_idx, p_resp, result>>
pureVars == <<doc, form_res, payloads, html, stats_out>>
vars == <<pc, net, runVars, loginVars, loopVars, stepVars, pureVars>>

NoCred == [username |-> "", password |-> "", serverchan |-> "", base |-> ""]
NoLogin == [payload |-> <<>>, post_url |-> "", blind_i |-> 0, posts |-> 0, answer |-> "none"]
NoPending == [msg |-> "", stats |-> NoStats, strategy |-> 0]
NoResult == [success |-> FALSE, msg |-> "", stats |-> EmptyDict, strategy |-> 0, returned |-> FALSE]
NoNet == [login |-> FALSE, checkin |-> 0, profile |-> 0, notify |-> 0]

InitRun ==
    /\ retries = 0
    /\ cred = NoCred
    /\ cred_error = "none"
    /\ exit_code = -1
    /\ uncaught = FALSE
    /\ login_result = "none"
    /\ logged_in = FALSE
    /\ login = NoLogin
    /\ net = NoNet
    /\ attempt = 0
    /\ failure_reasons = <<>>
    /\ calls = 0
    /\ verdicts = <<>>
    /\ reqs = <<>>
    /\ get_resp = NoResp
    /\ post_resp = NoResp
    /\ pending = NoPending
    /\ p_idx = 0
    /\ p_resp = NoResp
    /\ result = NoResult
    /\ log = <<>>
    /\ last_send = "none"

InitPure ==
    /\ doc = <<>>
    /\ form_res = FormNotFound
    /\ payloads = <<>>
    /\ html = <<>>
    /\ stats_out = NoStats

Init == pc = "parse_args" /\ InitRun /\ InitPure

\* ------------------------------------------------------------- main
\* Lines 437-442: argparse accepts any integer for --retries.
ParseArgs ==
    /\ pc = "parse_args"
    /\ \E r \in (0 - 1)..MaxRetries : retries' = r
    /\ pc' = "load_credentials"
    /\ UNCHANGED <<net, cred, cred_error, exit_code, uncaught, loginVars, loopVars, stepVars, pureVars>>

\* sys.exit(code)
Exit(code) == pc' = "exit" /\ exit_code' = code

\* AfterLoad, had main gone on after a failed load instead of leaving.
AfterLoad_Continue(c) == "try_login"

\* What main does with the outcome of load_credentials, lines 444-453.
AfterLoad(c) == IF c.err # "none" THEN "exit" ELSE "try_login"

LoadCredentials ==
    /\ pc = "load_credentials"
    /\ \E file \in CredFiles :
         LET c == load_credentials(file) IN
         /\ cred_error' = c.err
         /\ IF AfterLoad(c) = "exit"
            THEN Exit(2) /\ cred' = cred
            ELSE /\ pc' = "try_login"
                 /\ exit_code' = exit_code
                 /\ cred' = [username |-> c.username, password |-> c.password,
                             serverchan |-> c.serverchan, base |-> c.base]
    /\ UNCHANGED <<net, retries, uncaught, loginVars, loopVars, stepVars, pureVars>>

\* ---------------------------------------------------------- try_login
\* LoginOver, had main left with status 1 when the login did not succeed.
LoginOver_Fatal(outcome) ==
    /\ login_result' = outcome
    /\ logged_in' = (outcome = "true")
    /\ login' = NoLogin
    /\ IF outcome = "true"
       THEN pc' = "loop" /\ exit_code' = exit_code
       ELSE pc' = "exit" /\ exit_code' = 1

\* What main does when try_login is over, lines 461-472: logged_in is set
\* (False when try_login raised) and the retry loop starts.
LoginOver(outcome) ==
    /\ login_result' = outcome
    /\ logged_in' = (outcome = "true")
    /\ login' = NoLogin
    /\ pc' = "loop"
    /\ exit_code' = exit_code

LoginStep(next, l) ==
    /\ pc' = next
    /\ login' = l
    /\ UNCHANGED <<login_result, logged_in, exit_code>>

\* Lines 129-144: the username field try_login settles on.
RECURSIVE FirstTextInput(_, _)
FirstTextInput(inputs, pwd) ==
    IF inputs = <<>> THEN None
    ELSE LET inp == Head(inputs) IN
         IF inp.name # <<>> /\ Typ(inp) \in {"text", "email"} /\ Some(inp.name) # pwd
         THEN Some(inp.name) ELSE FirstTextInput(Tail(inputs), pwd)

RECURSIVE FirstHintedInput(_)
FirstHintedInput(inputs) ==
    IF inputs = <<>> THEN None
    ELSE LET inp == Head(inputs) IN
         IF inp.name # <<>> /\ HintIn(USER_HINTS, Lower(inp.name))
         THEN Some(inp.name) ELSE FirstHintedInput(Tail(inputs))

LoginUnameField(form, f) ==
    IF f.uname # None THEN f.uname
    ELSE IF FirstTextInput(form.inputs, f.pwd) # None THEN FirstTextInput(form.inputs, f.pwd)
    ELSE FirstHintedInput(form.inputs)

\* Lines 115-151: GET the login page, find the form, build its payload.
LoginGet ==
    /\ pc = "try_login"
    /\ net' = [net EXCEPT !.login = TRUE]
    /\ \/ LoginOver("false")                                  \* line 122
       \/ \E page \in LoginPages :
            LET f == find_login_form(page) IN
            IF f.found
            THEN LET form == page[f.form]
                     action == IF form.action = "" THEN LOGIN_PATH ELSE form.action
                 IN  IF UrlJoinRaises(action)
                     THEN LoginOver("raised")                 \* line 128, caught at 463
                     ELSE LoginStep("login_form_post",
                            [NoLogin EXCEPT
                               !.answer = "page",
                               !.post_url = action,
                               !.payload = build_payload_from_form(form, LoginUnameField(form, f),
                                              f.pwd, cred.username, cred.password, f.hidden)])
            ELSE LoginStep("login_blind_post", [NoLogin EXCEPT !.blind_i = 1, !.answer = "page"])
    /\ UNCHANGED <<retries, cred, cred_error, uncaught, loopVars, stepVars, pureVars>>

\* Lines 154-163: POST the form payload.
LoginFormPost ==
    /\ pc = "login_form_post"
    /\ \E a \in LoginAnswers :
         CASE a = "marker" -> LoginOver("true")
           [] a = "nomarker" -> LoginStep("login_form_home", [login EXCEPT !.answer = a])
           [] OTHER -> LoginStep("login_blind_post", [NoLogin EXCEPT !.blind_i = 1, !.answer = a])
    /\ UNCHANGED <<net, retries, cred, cred_error, uncaught, loopVars, stepVars, pureVars>>

\* Lines 164-170: the confirmatory GET of the site root.
LoginFormHome ==
    /\ pc = "login_form_home"
    /\ \E a \in LoginAnswers :
         IF a = "marker" THEN LoginOver("true")
         ELSE LoginStep("login_blind_post", [NoLogin EXCEPT !.blind_i = 1, !.answer = a])
    /\ UNCHANGED <<net, retries, cred, cred_error, uncaught, loopVars, stepVars, pureVars>>

\* Lines 172-179: POST the next blind payload, or line 187 after the last.
LoginBlindPost ==
    /\ pc = "login_blind_post"
    /\ LET combos == heuristic_payload(cred.username, cred.password) IN
       IF login.blind_i > Len(combos)
       THEN LoginOver("false")
       ELSE \E a \in LoginAnswers :
              CASE a = "marker" -> LoginOver("true")
                [] a = "nomarker" ->
                     LoginStep("login_blind_home",
                        [login EXCEPT !.payload = combos[login.blind_i], !.posts = @ + 1,
                                      !.answer = a])
                [] OTHER ->
                     LoginStep("login_blind_post",
                        [login EXCEPT !.payload = combos[login.blind_i], !.posts = @ + 1,
                                      !.blind_i = @ + 1, !.answer = a])
    /\ UNCHANGED <<net, retries, cred, cred_error, uncaught, loopVars, stepVars, pureVars>>

\* LoginBlindHome, had try_login given up after the first blind payload
\* that was not confirmed.
LoginBlindHome_GivesUp ==
    /\ pc = "login_blind_home"
    /\ \E a \in LoginAnswers :
         IF a = "marker" THEN LoginOver("true") ELSE LoginOver("false")
    /\ UNCHANGED <<net, retries, cred, cred_error, uncaught, loopVars, stepVars, pureVars>>

\* Lines 180-186: the confirmatory GET after a blind POST.
LoginBlindHome ==
    /\ pc = "login_blind_home"
    /\ \E a \in LoginAnswers :
         IF a = "marker" THEN LoginOver("true")
         ELSE LoginStep("login_blind_post", [login EXCEPT !.blind_i = @ + 1, !.answer = a])
    /\ UNCHANGED <<net, retries, cred, cred_error, uncaught, loopVars, stepVars, pureVars>>

\* An entry of the log: the start of an attempt, a delay, or a notification
\* with what its body says (the message, the statistics lines, the reasons).
Event(kind, n, msg, stats, reasons) ==
    [kind |-> kind, attempt |-> n, msg |-> msg, stats |-> stats, reasons |-> reasons]

\* ------------------------------------------------------ do_checkin_once
\* any(k in text for k in keywords)
HasKeyword(r, keywords) == \E k \in keywords : k \in r.markers

\* Line 275: the GET response is itself a success.
GetSucceeded(r) == r.status = 200 /\ HasKeyword(r, GET_KEYWORDS)
\* Lines 305 and 320: a POST response is a success.
PostSucceeded(r) == HasKeyword(r, POST_KEYWORDS)

\* extract_human_message(text) or default
MsgOr(msg, default) == IF msg = "" THEN default ELSE msg

Failure(msg, strategy) ==
    [success |-> FALSE, msg |-> msg, stats |-> EmptyDict, strategy |-> strategy, returned |-> TRUE]
Success(msg, stats, strategy) ==
    [success |-> TRUE, msg |-> msg, stats |-> stats, strategy |-> strategy, returned |-> TRUE]

\* MergeStats, had the profile page's values been written over the
\* response's own.
MergeStats_ProfileWins(profile, direct) ==
    [k \in DOMAIN profile \cup DOMAIN direct |->
        IF k \in DOMAIN profile /\ profile[k] # None THEN profile[k] ELSE direct[k]]

\* Lines 280-283: merged = {**profile_stats}, then every non-None value of
\* the response's own stats.
MergeStats(profile, direct) ==
    [k \in DOMAIN profile \cup {d \in DOMAIN direct : direct[d] # None} |->
        IF k \in DOMAIN direct /\ direct[k] # None THEN direct[k] ELSE profile[k]]

\* AfterGet, had line 275 not looked for a success keyword in the GET.
AfterGet_NoShortcut(r) ==
    IF r.kind = "error" THEN "return"
    ELSE IF r.form \in {"action", "badaction"}
         THEN IF r.form = "badaction" THEN "raise" ELSE "form_post"
         ELSE "direct_post"

\* Where do_checkin_once goes after the GET, lines 269-316.
AfterGet(r) ==
    IF r.kind = "error" THEN "return"
    ELSE IF GetSucceeded(r) THEN "profile"
    ELSE IF r.form \in {"action", "badaction"}
         THEN IF r.form = "badaction" THEN "raise" ELSE "form_post"
         ELSE "direct_post"

\* AfterFormPost, had a failed form POST fallen through to the direct POST.
AfterFormPost_FallsThrough(r2) ==
    IF r2.kind = "response" /\ PostSucceeded(r2) THEN "profile" ELSE "direct_post"

\* Where it goes after the form POST, lines 300-313: it returns either way.
AfterFormPost(r2) ==
    IF r2.kind = "error" THEN "return"
    ELSE IF PostSucceeded(r2) THEN "profile" ELSE "return"

\* AfterDirectPost, had the direct POST been made outside its try block.
AfterDirectPost_Raises(rpost) ==
    IF rpost.kind = "error" THEN "raise"
    ELSE IF PostSucceeded(rpost) THEN "profile" ELSE "return"

\* Where it goes after the direct POST, lines 315-328.
AfterDirectPost(rpost) ==
    IF rpost.kind = "error" THEN "return"
    ELSE IF PostSucceeded(rpost) THEN "profile" ELSE "return"

\* The verdict of a step that ends the attempt in failure.
FailureOf(r, strategy) ==
    IF r.kind = "error"
    THEN CASE strategy = 1 -> Failure("GET failed", 1)
           [] strategy = 2 -> Failure("POST form failed", 2)
           [] OTHER -> Failure("POST failed", 3)
    ELSE IF strategy = 2 THEN Failure(MsgOr(r.msg, "no keyword after form"), 2)
         ELSE Failure(MsgOr(r.msg, "HTTP status"), 3)

\* The success a step hands to the profile probe.
PendingOf(r, strategy) ==
    [msg |-> MsgOr(r.msg, CASE strategy = 1 -> "success by GET"
                            [] strategy = 2 -> "success by form"
                            [] OTHER -> "success by POST"),
     stats |-> r.stats, strategy |-> strategy]

\* The verdict checkin_with_retries reads at line 385.
Verdict(res) == [success |-> res.success, msg |-> res.msg]

\* What the classification reads of a response: whether there is one, its
\* status, its keywords and its form.
Seen(r) == [r EXCEPT !.msg = "", !.stats = NoStats]

\* One step of do_checkin_once: the request is recorded, and the attempt
\* goes on, returns a failure, or starts the profile probe.
Step(next, r, strategy) ==
    /\ pc' = CASE next = "return" -> "attempt_done"
               [] next = "raise" -> "exit"
               [] OTHER -> next
    /\ result' = IF next = "return" THEN FailureOf(r, strategy) ELSE NoResult
    /\ verdicts' = IF next = "return" THEN Append(verdicts, Verdict(FailureOf(r, strategy))) ELSE verdicts
    /\ pending' = IF next = "profile" THEN PendingOf(r, strategy) ELSE NoPending
    /\ p_idx' = IF next = "profile" THEN 1 ELSE 0
    /\ p_resp' = NoResp
    /\ exit_code' = IF next = "raise" THEN 1 ELSE exit_code
    /\ uncaught' = (next = "raise")

\* Lines 381-385 and 267-299: the loop test holds, attempt is incremented,
\* do_checkin_once is called and GETs the check-in page.
CheckinGet ==
    /\ pc = "loop"
    /\ attempt < retries
    /\ attempt' = attempt + 1
    /\ calls' = calls + 1
    /\ log' = Append(log, Event("attempt", attempt + 1, "", EmptyDict, <<>>))
    /\ last_send' = "none"
    /\ reqs' = <<Req("GET", CHECKIN_PATH)>>
    /\ net' = [net EXCEPT !.checkin = @ + 1]
    /\ post_resp' = NoResp
    /\ \E r \in {ErrorResp} \cup GetBodies :
         /\ get_resp' = Seen(r)
         /\ Step(AfterGet(r), r, 1)
    /\ UNCHANGED <<retries, cred, cred_error, loginVars, failure_reasons, pureVars>>

\* Lines 300-313: POST the page's form.
FormPost ==
    /\ pc = "form_post"
    /\ reqs' = Append(reqs, Req("POST", "form action"))
    /\ net' = [net EXCEPT !.checkin = @ + 1]
    /\ \E r2 \in {ErrorResp} \cup PostBodies :
         /\ post_resp' = Seen(r2)
         /\ Step(AfterFormPost(r2), r2, 2)
    /\ UNCHANGED <<retries, cred, cred_error, loginVars, attempt, failure_reasons, calls, log,
                   last_send, get_resp, pureVars>>

\* Lines 315-328: POST to the check-in endpoint with no body.
DirectPost ==
    /\ pc = "direct_post"
    /\ reqs' = Append(reqs, Req("POST", CHECKIN_PATH))
    /\ net' = [net EXCEPT !.checkin = @ + 1]
    /\ \E rpost \in {ErrorResp} \cup PostBodies :
         /\ post_resp' = Seen(rpost)
         /\ Step(AfterDirectPost(rpost), rpost, 3)
    /\ UNCHANGED <<retries, cred, cred_error, loginVars, attempt, failure_reasons, calls, log,
                   last_send, get_resp, pureVars>>

\* ------------------------------------------------- fetch_profile_stats
\* ProfileFound, had line 248 not skipped the pages that are not HTTP 200.
ProfileFound_AnyStatus(r) ==
    r.kind = "response" /\ \E k \in STAT_KEYS : r.stats[k] # None

\* Lines 248-255: the page's stats are returned if it is a 200 with at
\* least one statistic.
ProfileFound(r) ==
    r.kind = "response" /\ r.status = 200 /\ \E k \in STAT_KEYS : r.stats[k] # None

\* Lines 244-258, one page at a time, then the merge of lines 280-284.
ProfileGet ==
    /\ pc = "profile"
    /\ reqs' = Append(reqs, Req("GET", PROFILE_PATHS[p_idx]))
    /\ net' = [net EXCEPT !.profile = @ + 1]
    /\ \E r \in ProfilePages :
         LET found == ProfileFound(r)
             over == found \/ p_idx = Len(PROFILE_PATHS)
             res == Success(pending.msg,
                            MergeStats(IF found THEN r.stats ELSE NoStats, pending.stats),
                            pending.strategy)
         IN  /\ result' = IF over THEN res ELSE result
             /\ verdicts' = IF over THEN Append(verdicts, Verdict(res)) ELSE verdicts
             /\ pc' = IF over THEN "attempt_done" ELSE "profile"
             /\ p_idx' = IF over THEN p_idx ELSE p_idx + 1
             /\ p_resp' = r
    /\ get_resp' = NoResp
    /\ post_resp' = NoResp
    /\ UNCHANGED <<runVars, loginVars, attempt, failure_reasons, calls, log, last_send,
                   pending, pureVars>>

\* send_serverchan, had the request been made outside its try block.
send_serverchan_Raises(sckey, answer) ==
    IF sckey = ""
    THEN [posted |-> FALSE, ret |-> FALSE, raised |-> FALSE]
    ELSE [posted |-> TRUE, ret |-> (answer = "200"), raised |-> (answer = "error")]

\* ------------------------------------------------------ send_serverchan
\* Lines 350-370: nothing is sent without a key; a transport error is
\* caught and gives False.
send_serverchan(sckey, answer) ==
    IF sckey = ""
    THEN [posted |-> FALSE, ret |-> FALSE, raised |-> FALSE]
    ELSE [posted |-> TRUE, ret |-> (answer = "200"), raised |-> FALSE]

\* if serverchan_key: send_serverchan(...), lines 408, 418 and 429.
NotCalled == [posted |-> FALSE, ret |-> FALSE, raised |-> FALSE]
Notify(key, answer) == IF key # "" THEN send_serverchan(key, answer) ELSE NotCalled

\* ------------------------------------------------ checkin_with_retries
\* Lines 394-406: a line for every statistic that is not None.
StatLines(stats) == [k \in {d \in DOMAIN stats : stats[d] # None} |-> stats[k]]

\* Line 414: reason = msg or a fixed text.
Reason(msg) == IF msg = "" THEN "no reason" ELSE msg

\* Line 415: the entry of failure_reasons.
ReasonEntry(n, reason) == [attempt |-> n, reason |-> reason]

\* FinalBody, had the final body carried the last attempt's reason only.
FinalBody_LastOnly(reasons) == <<reasons[Len(reasons)]>>

\* Line 428: the final body joins every recorded reason.
FinalBody(reasons) == reasons

\* An exception nothing catches ends the process with status 1.
Uncaught == Exit(1) /\ uncaught' = TRUE

\* HandleSuccess, had the loop gone on after a success instead of returning.
HandleSuccess_Continues ==
    /\ pc = "attempt_done"
    /\ result.success
    /\ \E a \in SendAnswers :
         LET s == Notify(cred.serverchan, a) IN
         /\ log' = IF s.posted
                   THEN Append(log, Event("success", attempt, result.msg, StatLines(result.stats), <<>>))
                   ELSE log
         /\ net' = [net EXCEPT !.notify = IF s.posted THEN @ + 1 ELSE @]
         /\ last_send' = IF s.posted THEN a ELSE "none"
         /\ IF attempt < retries
            THEN pc' = "loop" /\ exit_code' = exit_code
            ELSE Exit(0)
         /\ uncaught' = uncaught
    /\ UNCHANGED <<retries, cred, cred_error, loginVars, attempt, failure_reasons, calls, verdicts,
                   stepVars, pureVars>>

\* Lines 386-411: the attempt succeeded; notify and return 0.
HandleSuccess ==
    /\ pc = "attempt_done"
    /\ result.success
    /\ \E a \in SendAnswers :
         LET s == Notify(cred.serverchan, a) IN
         /\ log' = IF s.posted
                   THEN Append(log, Event("success", attempt, result.msg, StatLines(result.stats), <<>>))
                   ELSE log
         /\ net' = [net EXCEPT !.notify = IF s.posted THEN @ + 1 ELSE @]
         /\ last_send' = IF s.posted THEN a ELSE "none"
         /\ IF s.raised THEN Uncaught ELSE Exit(0) /\ uncaught' = uncaught
    /\ UNCHANGED <<retries, cred, cred_error, loginVars, attempt, failure_reasons, calls, verdicts,
                   stepVars, pureVars>>

\* HandleFailure, had the per-attempt notification been kept for the
\* attempts before the last (i < N) only.
HandleFailure_SilentOnLast ==
    /\ pc = "attempt_done"
    /\ ~result.success
    /\ LET reason == Reason(result.msg)
           recorded == Append(failure_reasons, ReasonEntry(attempt, reason))
       IN
       /\ failure_reasons' = recorded
       /\ \E a1 \in SendAnswers, a2 \in SendAnswers :
            LET s1 == IF attempt < retries THEN Notify(cred.serverchan, a1) ELSE NotCalled
                s2 == Notify(cred.serverchan, a2)
                log1 == IF s1.posted
                        THEN Append(log, Event("attempt failed", attempt, reason, EmptyDict, <<>>))
                        ELSE log
            IN
            IF attempt < retries
            THEN /\ log' = Append(log1, Event("sleep", attempt, "", EmptyDict, <<>>))
                 /\ net' = [net EXCEPT !.notify = IF s1.posted THEN @ + 1 ELSE @]
                 /\ last_send' = IF s1.posted THEN a1 ELSE "none"
                 /\ pc' = "loop"
                 /\ reqs' = <<>>
                 /\ get_resp' = NoResp
                 /\ post_resp' = NoResp
                 /\ result' = NoResult
                 /\ UNCHANGED <<exit_code, uncaught, pending, p_idx, p_resp>>
            ELSE /\ log' = IF s2.posted
                           THEN Append(log1, Event("final failed", attempt, "", EmptyDict, FinalBody(recorded)))
                           ELSE log1
                 /\ net' = [net EXCEPT !.notify = IF s2.posted THEN @ + 1 ELSE @]
                 /\ last_send' = IF s2.posted THEN a2 ELSE "none"
                 /\ Exit(1) /\ uncaught' = uncaught
                 /\ UNCHANGED stepVars
    /\ UNCHANGED <<retries, cred, cred_error, loginVars, attempt, calls, verdicts, pureVars>>

\* Lines 412-431: the attempt failed; record the reason, notify, then wait
\* and loop (the attempt's own responses and requests are then forgotten),
\* or send the final notification and return 1.
HandleFailure ==
    /\ pc = "attempt_done"
    /\ ~result.success
    /\ LET reason == Reason(result.msg)
           recorded == Append(failure_reasons, ReasonEntry(attempt, reason))
       IN
       /\ failure_reasons' = recorded
       /\ \E a1 \in SendAnswers, a2 \in SendAnswers :
            LET s1 == Notify(cred.serverchan, a1)
                s2 == Notify(cred.serverchan, a2)
                log1 == IF s1.posted
                        THEN Append(log, Event("attempt failed", attempt, reason, EmptyDict, <<>>))
                        ELSE log
            IN
            IF s1.raised
            THEN /\ log' = log1
                 /\ net' = [net EXCEPT !.notify = @ + 1]
                 /\ last_send' = a1
                 /\ Uncaught
                 /\ UNCHANGED stepVars
            ELSE IF attempt < retries
            THEN /\ log' = Append(log1, Event("sleep", attempt, "", EmptyDict, <<>>))
                 /\ net' = [net EXCEPT !.notify = IF s1.posted THEN @ + 1 ELSE @]
                 /\ last_send' = IF s1.posted THEN a1 ELSE "none"
                 /\ pc' = "loop"
                 /\ reqs' = <<>>
                 /\ get_resp' = NoResp
                 /\ post_resp' = NoResp
                 /\ result' = NoResult
                 /\ UNCHANGED <<exit_code, uncaught, pending, p_idx, p_resp>>
            ELSE /\ log' = IF s2.posted
                           THEN Append(log1, Event("final failed", attempt, "", EmptyDict, FinalBody(recorded)))
                           ELSE log1
                 /\ net' = [net EXCEPT !.notify = IF s2.posted THEN @ + 2 ELSE @]
                 /\ last_send' = IF s2.posted THEN a2 ELSE "none"
                 /\ IF s2.raised THEN Uncaught ELSE Exit(1) /\ uncaught' = uncaught
                 /\ UNCHANGED stepVars
    /\ UNCHANGED <<retries, cred, cred_error, loginVars, attempt, calls, verdicts, pureVars>>

\* LoopExit, had the return after the loop sent the final notification
\* of lines 428-430 first.
LoopExit_FinalNotice ==
    /\ pc = "loop"
    /\ ~(attempt < retries)
    /\ Exit(1)
    /\ \E a \in SendAnswers :
         LET s == Notify(cred.serverchan, a) IN
         /\ log' = IF s.posted
                   THEN Append(log, Event("final failed", attempt, "", EmptyDict, FinalBody(failure_reasons)))
                   ELSE log
         /\ net' = [net EXCEPT !.notify = IF s.posted THEN @ + 1 ELSE @]
         /\ last_send' = IF s.posted THEN a ELSE "none"
    /\ UNCHANGED <<retries, cred, cred_error, uncaught, loginVars, attempt, failure_reasons, calls, verdicts, stepVars, pureVars>>

\* Line 433: the loop test fails at the top of the loop.
LoopExit ==
    /\ pc = "loop"
    /\ ~(attempt < retries)
    /\ Exit(1)
    /\ UNCHANGED <<net, retries, cred, cred_error, uncaught, loginVars, loopVars, stepVars, pureVars>>

Next ==
    \/ ParseArgs
    \/ LoadCredentials
    \/ LoginGet
    \/ LoginFormPost
    \/ LoginFormHome
    \/ LoginBlindPost
    \/ LoginBlindHome
    \/ CheckinGet
    \/ FormPost
    \/ DirectPost
    \/ ProfileGet
    \/ HandleSuccess
    \/ HandleFailure
    \/ LoopExit

Spec == Init /\ [][Next]_vars

TypeOK ==
    /\ pc \in {"parse_args", "load_credentials", "try_login", "login_form_post", "login_form_home",
               "login_blind_post", "login_blind_home", "loop", "form_post", "direct_post",
               "profile", "attempt_done", "exit"}
    /\ exit_code \in {-1, 0, 1, 2}
    /\ attempt \in 0..(MaxRetries + 1)

\* ------------------------------------------------- properties of Spec
Max0(n) == IF n > 0 THEN n ELSE 0
EventsOf(kind) == SelectSeq(log, LAMBDA e : e.kind = kind)
AttemptNumbers == [i \in 1..Len(EventsOf("attempt")) |-> EventsOf("attempt")[i].attempt]
UpTo(n) == [i \in 1..n |-> i]
NoneSucceeded == \A i \in 1..Len(verdicts) : ~verdicts[i].success
SomeSucceeded == \E i \in 1..Len(verdicts) : verdicts[i].success
\* The reasons checkin_with_retries records for the first n verdicts.
ReasonsOf(n) == [i \in 1..n |-> ReasonEntry(i, Reason(verdicts[i].msg))]
HasKey == cred.serverchan # ""

\* The run is over and each of its N >= 1 invocations returned a failure.
AllFailed ==
    pc = "exit" /\ cred_error = "none" /\ retries >= 1 /\ Len(verdicts) = retries /\ NoneSucceeded

AllFailedOutcome ==
    /\ exit_code = 1
    /\ AttemptNumbers = UpTo(retries)
    /\ failure_reasons = ReasonsOf(retries)

\* C1 (as amended): when all N >= 1 invocations of do_checkin_once fail, the
\* attempts 1..N were made in order, the run ends with exit code 1, and, if
\* a notify key is configured, exactly one final-failure notification was
\* issued, last of all, whose body holds the reason of every attempt in
\* attempt order; without a notify key no notification is issued at all.
C1_AllFailedFinalNotification ==
    AllFailed =>
        /\ AllFailedOutcome
        /\ IF HasKey
           THEN /\ Len(EventsOf("final failed")) = 1
                /\ log[Len(log)].kind = "final failed"
                /\ log[Len(log)].reasons = ReasonsOf(retries)
           ELSE \A i \in 1..Len(log) : log[i].kind \in {"attempt", "sleep"}

\* C1 as stated: exactly one final-failure notification in every such run.
C1_Original ==
    AllFailed =>
        /\ AllFailedOutcome
        /\ Len(EventsOf("final failed")) = 1
        /\ log[Len(log)].reasons = ReasonsOf(retries)

C1_Witness ==
    /\ AllFailed /\ HasKey /\ retries = 3 /\ exit_code = 1
    /\ verdicts[1].msg # verdicts[2].msg /\ verdicts[2].msg # verdicts[3].msg
    /\ log[Len(log)].reasons = ReasonsOf(3)

\* C2: when the verdict of attempt i is the first success, the next step
\* ends the run with exit code 0, emitting exactly one success notification
\* if a notify key is configured and none otherwise; it makes no check-in
\* request, no delay and no failure notification, and nothing happens after
\* the run has ended.
C2_SuccessEndsRun ==
    /\ [](pc = "attempt_done" /\ result.success =>
            /\ Len(verdicts) = attempt
            /\ \A j \in 1..(attempt - 1) : ~verdicts[j].success
            /\ EventsOf("success") = <<>>
            /\ EventsOf("final failed") = <<>>)
    /\ [][pc = "attempt_done" /\ result.success =>
            /\ pc' = "exit" /\ exit_code' = 0
            /\ attempt' = attempt /\ calls' = calls /\ net'.checkin = net.checkin
            /\ failure_reasons' = failure_reasons
            /\ log' = IF HasKey
                      THEN Append(log, Event("success", attempt, result.msg,
                                             StatLines(result.stats), <<>>))
                      ELSE log]_vars
    /\ [][pc # "exit"]_vars

C2_Witness ==
    /\ pc = "exit" /\ exit_code = 0 /\ HasKey /\ attempt = 2 /\ retries = 3
    /\ Len(EventsOf("success")) = 1 /\ log[Len(log)].kind = "success"

\* C3: at the end of a run the exit code is 0, 1 or 2: 0 exactly when an
\* attempt returned success, 1 exactly when the credentials loaded and all
\* N attempts were made and failed, 2 exactly when the load failed.
C3_ExitCodes ==
    pc = "exit" =>
        /\ exit_code \in {0, 1, 2}
        /\ exit_code = 0 <=> SomeSucceeded
        /\ exit_code = 1 <=> (cred_error = "none" /\ Len(verdicts) = Max0(retries) /\ NoneSucceeded)
        /\ exit_code = 2 <=> cred_error # "none"

\* C4: whatever try_login did, the retry loop starts right after it with
\* nothing run yet, and do_checkin_once is invoked once per attempt of the
\* loop: a run that ends without a success and without an uncaught
\* exception has made every one of its attempts.
C4_LoginNeverSkipsCheckin ==
    /\ [][login_result = "none" /\ login_result' # "none" =>
            pc' = "loop" /\ exit_code' = 0 - 1 /\ attempt' = 0 /\ calls' = 0]_vars
    /\ [](/\ calls = attempt
          /\ AttemptNumbers = UpTo(attempt)
          /\ (calls > 0 => login_result # "none")
          /\ (pc = "exit" /\ cred_error = "none" /\ ~SomeSucceeded /\ ~uncaught
                => login_result # "none" /\ calls = Max0(retries)))

C4_Witness ==
    pc = "exit" /\ login_result = "raised" /\ calls = 3 /\ retries = 3 /\ NoneSucceeded

GetReq == Req("GET", CHECKIN_PATH)
FormReq == Req("POST", "form action")
DirectReq == Req("POST", CHECKIN_PATH)
NoPost(rs) == \A i \in 1..Len(rs) : rs[i].m # "POST"
Posts(rs) == SelectSeq(rs, LAMBDA q : q.m = "POST")
\* The GET was answered with the keyword "success" on a page with no form.
MarkedNoForm ==
    get_resp.kind = "response" /\ "success" \in get_resp.markers /\ get_resp.form = "none"

\* C5 (as amended): when the GET of the check-in page is answered with HTTP
\* status 200, the keyword "success" and no form, the step is at strategy 1
\* with a success in hand; from there it only probes the profile pages and
\* returns a success verdict of strategy 1, and no POST is issued in that
\* attempt.
C5_GetSuccessStopsAtStrategy1 ==
    /\ [](MarkedNoForm /\ get_resp.status = 200 =>
            pc = "profile" /\ pending.strategy = 1 /\ reqs = <<GetReq>>)
    /\ [][pc = "profile" /\ pending.strategy = 1 =>
            /\ NoPost(reqs')
            /\ \/ pc' = "profile" /\ pending' = pending
               \/ pc' = "attempt_done" /\ result'.success /\ result'.strategy = 1]_vars
    /\ [](result.returned /\ result.success /\ result.strategy = 1 => NoPost(reqs))

\* C5 as stated: the same for every such response, whatever its status.
C5_Original ==
    MarkedNoForm => pc = "profile" /\ pending.strategy = 1 /\ NoPost(reqs)

C5_Witness ==
    /\ MarkedNoForm /\ get_resp.status = 200 /\ pc = "profile"
    /\ pending.strategy = 1 /\ reqs = <<GetReq>> /\ attempt = 2

\* The GET was answered and strategy 1 did not succeed.
Strategy1Failed == get_resp.kind = "response" /\ ~GetSucceeded(get_resp)

\* C6 (as amended): the strategies are tried in order and stop at the first
\* success, with at most one POST in an attempt. If strategy 1 did not
\* succeed and the page had no form with a submission target, the POST of
\* strategy 3 is issued before the attempt returns a failure verdict. If the
\* form POST of strategy 2 was issued and failed, the attempt returns a
\* failure verdict at once: strategy 3 is not issued.
C6_StrategiesEscalate ==
    /\ reqs # <<>> => reqs[1] = GetReq /\ Len(Posts(reqs)) <= 1
    /\ Len(Posts(reqs)) = 1 => reqs[2] \in {FormReq, DirectReq}
    /\ Strategy1Failed /\ get_resp.form \in {"none", "noaction"} =>
          IF pc = "direct_post" THEN reqs = <<GetReq>>
          ELSE /\ Len(reqs) >= 2 /\ reqs[2] = DirectReq
               /\ (result.returned /\ ~result.success => result.strategy = 3 /\ reqs = <<GetReq, DirectReq>>)
    /\ result.returned /\ ~result.success /\ result.strategy = 2 =>
          reqs = <<GetReq, FormReq>> /\ get_resp.form = "action"
    /\ result.returned /\ result.success =>
          Posts(reqs) = CASE result.strategy = 1 -> <<>>
                          [] result.strategy = 2 -> <<FormReq>>
                          [] OTHER -> <<DirectReq>>

\* C6 as stated: a failure verdict after an answered GET comes only after
\* the POST of strategy 3.
C6_Original ==
    result.returned /\ ~result.success /\ Strategy1Failed =>
        \E i \in 1..Len(reqs) : reqs[i] = DirectReq

C6_Witness ==
    /\ pc = "attempt_done" /\ result.returned /\ ~result.success /\ result.strategy = 3
    /\ Strategy1Failed /\ get_resp.form = "noaction" /\ reqs = <<GetReq, DirectReq>>

\* C9: when load_credentials fails, the run is over with exit code 2 and
\* nothing was sent: no login request, no check-in request, no profile
\* probe and no notification.
C9_LoadFailureAborts ==
    cred_error # "none" =>
        /\ pc = "exit" /\ exit_code = 2 /\ ~uncaught
        /\ net = NoNet /\ reqs = <<>> /\ log = <<>>
        /\ calls = 0 /\ attempt = 0 /\ login_result = "none"

C9_Witness ==
    pc = "exit" /\ exit_code = 2 /\ cred_error = "ValueError: no username or password" /\ net = NoNet

FailedVerdicts == Cardinality({i \in 1..Len(verdicts) : ~verdicts[i].success})

\* C10: the exit code, the number of check-in attempts and the recorded
\* failure reasons are determined by the sequence of check-in verdicts (and
\* the retry bound) alone, whatever each send_serverchan call met and
\* whether or not a notify key is configured; and an exception that ends the
\* run never comes from send_serverchan, only from an invocation of
\* do_checkin_once that returned no verdict.
C10_OutcomeIndependentOfDelivery ==
    /\ failure_reasons = ReasonsOf(IF pc = "attempt_done" /\ ~result.success
                                   THEN Len(verdicts) - 1 ELSE FailedVerdicts)
    /\ attempt = calls
    /\ calls \in {Len(verdicts), Len(verdicts) + 1}
    /\ uncaught => calls = Len(verdicts) + 1
    /\ pc = "exit" /\ cred_error = "none" =>
         /\ exit_code = IF SomeSucceeded THEN 0 ELSE 1
         /\ calls = IF uncaught THEN Len(verdicts) + 1 ELSE Len(verdicts)
         /\ (~uncaught /\ ~SomeSucceeded => Len(verdicts) = Max0(retries))
         /\ (SomeSucceeded => verdicts[Len(verdicts)].success /\ FailedVerdicts = Len(verdicts) - 1)

C10_Witness ==
    /\ pc = "exit" /\ ~uncaught /\ HasKey /\ last_send = "error"
    /\ exit_code = 1 /\ Len(failure_reasons) = 2 /\ retries = 2

\* The notifications of the log, in order.
Notifications == SelectSeq(log, LAMBDA e : e.kind \in {"success", "attempt failed", "final failed"})

\* C11 (as amended): with a notify key configured, every failed attempt i,
\* the last one (i = N) included, emits one per-attempt failure notification
\* carrying its reason; the failed attempt N emits two, its own and then the
\* final aggregate one. A run whose N attempts all fail emits N per-attempt
\* failure notifications followed by one final-failure notification, N + 1
\* in all (and none without a notify key).
C11_EveryFailureNotified ==
    /\ HasKey =>
         /\ Len(EventsOf("attempt failed")) = Len(failure_reasons)
         /\ \A i \in 1..Len(failure_reasons) :
               /\ EventsOf("attempt failed")[i].attempt = i
               /\ EventsOf("attempt failed")[i].msg = failure_reasons[i].reason
    /\ ~HasKey => Notifications = <<>> /\ net.notify = 0
    /\ AllFailed /\ HasKey =>
         /\ Len(Notifications) = retries + 1
         /\ net.notify = retries + 1
         /\ \A i \in 1..retries :
               Notifications[i].kind = "attempt failed" /\ Notifications[i].attempt = i
         /\ Notifications[retries + 1].kind = "final failed"

\* C11 as stated: N - 1 per-attempt notifications and the final one.
C11_Original ==
    AllFailed /\ HasKey =>
        /\ Len(EventsOf("attempt failed")) = retries - 1
        /\ Len(EventsOf("final failed")) = 1
        /\ Len(Notifications) = retries

C11_Witness ==
    /\ AllFailed /\ HasKey /\ retries = 3
    /\ Len(EventsOf("attempt failed")) = 3 /\ Len(Notifications) = 4
    /\ Notifications[3].attempt = 3 /\ Notifications[4].kind = "final failed"

\* C13: a transport error never ends the run: an exception that escapes
\* do_checkin_once comes from an answered GET (the malformed form target),
\* never from a request that failed. A check-in GET or POST that fails gives
\* a failure verdict with a reason and empty stats, with no request after
\* it in that attempt; a profile GET that fails is passed over and the
\* success verdict is returned.
C13_TransportErrorsAreVerdicts ==
    /\ uncaught => /\ get_resp.kind = "response" /\ get_resp.form = "badaction"
                   /\ post_resp = NoResp /\ p_resp = NoResp
    /\ get_resp.kind = "error" =>
          /\ pc \in {"attempt_done", "exit"} /\ ~uncaught
          /\ result = Failure("GET failed", 1) /\ reqs = <<GetReq>>
    /\ post_resp.kind = "error" =>
          /\ pc \in {"attempt_done", "exit"} /\ ~uncaught
          /\ result.returned /\ ~result.success /\ result.msg # "" /\ result.stats = EmptyDict
          /\ Len(reqs) = 2 /\ reqs[2] \in {FormReq, DirectReq}
    /\ p_resp.kind = "error" =>
          /\ pc \in {"profile", "attempt_done", "exit"} /\ ~uncaught
          /\ (pc # "profile" => result.returned /\ result.success /\ p_idx = Len(PROFILE_PATHS))
    /\ result.returned /\ ~result.success => result.msg # "" /\ result.stats = EmptyDict

C13_Witness ==
    /\ pc = "attempt_done" /\ post_resp.kind = "error" /\ attempt = 2
    /\ reqs = <<GetReq, FormReq>> /\ result = Failure("POST form failed", 2)

\* The text has one of the four check-in keywords.
HasAnyOfFour(r) ==
    r.markers \cap {"qiandao chenggong", "yi qiandao", "success", "already"} # {}
\* The step took the response for a success.
TakenAsSuccess(strategies) == pc = "profile" /\ pending.strategy \in strategies

\* C15: a check-in response is classified with the same rule in all three
\* strategies: it is a success exactly when its text has one of the four
\* keywords; a POST response whose only keyword is "already" is a success.
\* (Stated for the responses of status 200: C5 settles what the GET does
\* with another status.)
C15_SameRuleInAllStrategies ==
    /\ get_resp.kind = "response" /\ get_resp.status = 200 /\ reqs = <<GetReq>> =>
          (TakenAsSuccess({1}) <=> HasAnyOfFour(get_resp))
    /\ post_resp.kind = "response" /\ post_resp.status = 200 =>
          (TakenAsSuccess({2, 3}) <=> HasAnyOfFour(post_resp))

\* The statistics fetch_profile_stats returned in this attempt.
ProfileResult == IF ProfileFound(p_resp) THEN p_resp.stats ELSE NoStats

ProfileReqs == SelectSeq(reqs, LAMBDA q : \E i \in DOMAIN PROFILE_PATHS : q = Req("GET", PROFILE_PATHS[i]))
FirstPaths(n) == [i \in 1..n |-> Req("GET", PROFILE_PATHS[i])]
\* The page was answered with HTTP 200 and shows a statistic.
YieldsStats(r) ==
    r.kind = "response" /\ r.status = 200 /\ \E k \in STAT_KEYS : r.stats[k] # None

\* C17: profile pages are requested only once a strategy has succeeded, never
\* in an attempt that returns a failure (whose stats are empty); the paths
\* are requested in the order of the list, after the check-in requests; a
\* page that errors, is not HTTP 200 or shows no statistic is passed over,
\* and the probe stops at the first page that shows one (or at the end of
\* the list): no profile page is requested after it.
C17_ProfileProbe ==
    /\ [](/\ ProfileReqs = FirstPaths(Len(ProfileReqs))
          /\ Len(ProfileReqs) <= Len(PROFILE_PATHS)
          /\ ProfileReqs # <<>> =>
                /\ pending.strategy \in 1..3
                /\ SubSeq(reqs, Len(reqs) - Len(ProfileReqs) + 1, Len(reqs)) = ProfileReqs
                /\ pc = "profile" \/ (result.returned /\ result.success)
          /\ result.returned /\ ~result.success =>
                ProfileReqs = <<>> /\ result.stats = EmptyDict /\ p_resp = NoResp
          /\ pc = "profile" =>
                Len(ProfileReqs) = p_idx - 1 /\ ~YieldsStats(p_resp)
          /\ result.returned /\ result.success =>
                /\ Len(ProfileReqs) = p_idx
                /\ YieldsStats(p_resp) \/ p_idx = Len(PROFILE_PATHS))
    /\ [][pc = "profile" =>
            /\ reqs' = Append(reqs, Req("GET", PROFILE_PATHS[p_idx]))
            /\ IF YieldsStats(p_resp') \/ p_idx = Len(PROFILE_PATHS)
               THEN pc' = "attempt_done" /\ result'.success
               ELSE pc' = "profile" /\ p_idx' = p_idx + 1]_vars
    /\ [][net'.profile # net.profile => pc = "profile" /\ net'.profile = net.profile + 1]_vars

C17_Witness ==
    /\ pc = "attempt_done" /\ result.success /\ result.strategy = 3
    /\ p_idx = 3 /\ YieldsStats(p_resp)
    /\ reqs = <<GetReq, DirectReq>> \o FirstPaths(3)

\* The delays of the log, and the end states of the retry machine.
Succeeded == exit_code = 0 /\ verdicts # <<>> /\ verdicts[Len(verdicts)].success
Failed == exit_code = 1 /\ Len(verdicts) = retries /\ NoneSucceeded

\* C19: for a retry bound N >= 1 the loop ends in SUCCEEDED or FAILED after
\* at most N invocations of do_checkin_once; the attempt counter never
\* exceeds N; the recorded reasons are as many as the failed attempts
\* handled so far; and a delay comes only after a failed attempt i < N, right
\* before attempt i + 1, never after attempt N.
C19_BoundedRetryLoop ==
    retries >= 1 /\ cred_error = "none" =>
        /\ attempt <= retries /\ calls <= retries
        /\ Len(failure_reasons) = IF pc = "attempt_done" /\ ~result.success
                                  THEN FailedVerdicts - 1 ELSE FailedVerdicts
        /\ \A j \in 1..Len(log) : log[j].kind = "sleep" =>
              /\ log[j].attempt < retries
              /\ ~verdicts[log[j].attempt].success
              /\ j < Len(log) => log[j + 1] = Event("attempt", log[j].attempt + 1, "", EmptyDict, <<>>)
        /\ Len(EventsOf("sleep")) =
              Cardinality({i \in 1..Len(failure_reasons) : failure_reasons[i].attempt < retries})
        /\ pc = "exit" => Succeeded \/ Failed

MaxForms == 2
MaxInputs == 3

\* The inputs the documents are made of.
FormInputs ==
    { UserInput, PwdInput, TokenInput,
      Input(<<>>, "password", ""),
      Input(<<"P", "a", "s", "s", "w", "d">>, "", ""),
      Input(<<"l", "o", "g", "i", "n">>, "submit", ""),
      Input(<<"q">>, "", "x") }

RECURSIVE TotalInputs(_)
TotalInputs(d) == IF d = <<>> THEN 0 ELSE Len(Head(d).inputs) + TotalInputs(Tail(d))

InitForm ==
    /\ pc = "form_build"
    /\ InitRun
    /\ InitPure

AddForm ==
    /\ pc = "form_build"
    /\ Len(doc) < MaxForms
    /\ doc' = Append(doc, [action |-> "", inputs |-> <<>>])
    /\ UNCHANGED <<pc, net, runVars, loginVars, loopVars, stepVars, form_res, payloads, html, stats_out>>

AddInput ==
    /\ pc = "form_build"
    /\ doc # <<>>
    /\ TotalInputs(doc) < MaxInputs
    /\ \E inp \in FormInputs :
         doc' = [doc EXCEPT ![Len(doc)].inputs = Append(@, inp)]
    /\ UNCHANGED <<pc, net, runVars, loginVars, loopVars, stepVars, form_res, payloads, html, stats_out>>

\* Line 125, with the credentials try_login was given.
FindLoginForm ==
    /\ pc = "form_build"
    /\ form_res' = find_login_form(doc)
    /\ \E u \in {"alice", "bob"} : cred' = [NoCred EXCEPT !.username = u, !.password = "s3cret"]
    /\ pc' = "form_found"
    /\ UNCHANGED <<net, retries, cred_error, exit_code, uncaught, loginVars, loopVars, stepVars,
                   doc, payloads, html, stats_out>>

\* Lines 126-151: the payload of the form that was found.
BuildFormPayload ==
    /\ pc = "form_found"
    /\ form_res.found
    /\ payloads' = <<build_payload_from_form(doc[form_res.form],
                        LoginUnameField(doc[form_res.form], form_res), form_res.pwd,
                        cred.username, cred.password, form_res.hidden)>>
    /\ pc' = "form_payload"
    /\ UNCHANGED <<net, runVars, loginVars, loopVars, stepVars, doc, form_res, html, stats_out>>

\* Line 172: the blind payloads, when no form was found or its submission
\* did not log in.
BlindPayloads ==
    /\ \/ pc = "form_found" /\ ~form_res.found
       \/ pc = "form_payload"
    /\ payloads' = heuristic_payload(cred.username, cred.password)
    /\ pc' = "form_blind"
    /\ UNCHANGED <<net, runVars, loginVars, loopVars, stepVars, doc, form_res, html, stats_out>>

NextForm == AddForm \/ AddInput \/ FindLoginForm \/ BuildFormPayload \/ BlindPayloads

SpecForm == InitForm /\ [][NextForm]_vars

\* --------------------------------------------- properties of SpecForm
\* No input of the document is password-typed or named with a password hint.
NoPasswordInput(d) ==
    \A i \in 1..Len(d) : \A j \in 1..Len(d[i].inputs) :
        /\ Typ(d[i].inputs[j]) # "password"
        /\ ~HintIn(PASS_HINTS, Lower(d[i].inputs[j].name))

\* The named inputs of a form that are password-typed, by position.
NamedPasswordInputs(f) ==
    {j \in 1..Len(f.inputs) : f.inputs[j].name # <<>> /\ Typ(f.inputs[j]) = "password"}
\* The inputs of a form the username rule accepts, by position.
UserRuleInputs(f) ==
    {j \in 1..Len(f.inputs) :
        f.inputs[j].name # <<>> /\ Typ(f.inputs[j]) # "hidden" /\ IsUserField(f.inputs[j])}
FirstOf(S) == CHOOSE j \in S : \A k \in S : j <= k
\* The username field is the first input the username rule accepts.
FirstUserRuleChosen(f) ==
    form_res.uname = IF UserRuleInputs(f) = {} THEN None
                     ELSE Some(f.inputs[FirstOf(UserRuleInputs(f))].name)

\* C12: for a form whose named inputs include exactly one password-typed
\* input, find_login_form returns that input's name as the password field
\* and the first input the username rule accepts as the username field.
C12_PasswordTypedInputChosen ==
    pc # "form_build" /\ Len(doc) = 1 /\ Cardinality(NamedPasswordInputs(doc[1])) = 1 =>
        /\ form_res.found /\ form_res.form = 1
        /\ form_res.pwd = Some(doc[1].inputs[FirstOf(NamedPasswordInputs(doc[1]))].name)
        /\ FirstUserRuleChosen(doc[1])

\* C14: the username field find_login_form returns is never the input it
\* returns as the password field, and the payload built for the form holds
\* the password value under the password field's name.
C14_UsernameNotPasswordField ==
    /\ pc # "form_build" /\ form_res.found => form_res.uname # form_res.pwd
    /\ pc = "form_payload" => DictGet(payloads[1], form_res.pwd[1]) = Some(cred.password)

\* The n-th pair of the product of the two hint lists, user hints outermost.
HintPair(n, uval, pval) ==
    <<[k |-> USER_HINTS[((n - 1) \div 4) + 1], v |-> uval],
      [k |-> PASS_HINTS[((n - 1) % 4) + 1], v |-> pval]>>

\* C7 (as amended): for every document with no password-typed and no
\* password-hint-named input find_login_form reports "not found", and
\* heuristic_payload then gives exactly 20 payloads, the product of the 5
\* username hints and the 4 password hints, always in the same order (the
\* username hints outermost), each exactly {hint_u: username, hint_p: password}.
C7_BlindPayloads ==
    /\ pc # "form_build" /\ NoPasswordInput(doc) => form_res = FormNotFound
    /\ pc = "form_blind" =>
          /\ Len(payloads) = 20
          /\ \A n \in 1..20 : payloads[n] = HintPair(n, cred.username, cred.password)
          /\ \A m \in 1..20, n \in 1..20 : m # n => payloads[m] # payloads[n]

\* C7 as stated: 25 payloads.
C7_Original ==
    /\ pc # "form_build" /\ NoPasswordInput(doc) => form_res = FormNotFound
    /\ pc = "form_blind" /\ NoPasswordInput(doc) => Len(payloads) = 25

C7_Witness ==
    /\ pc = "form_blind" /\ NoPasswordInput(doc) /\ TotalInputs(doc) = 3 /\ Len(doc) = 2
    /\ ~form_res.found /\ Len(payloads) = 20 /\ cred.username = "bob"

\* -------------------------------------- try_login's blind sequence (Spec)
LoginPcs == {"try_login", "login_form_post", "login_form_home", "login_blind_post", "login_blind_home"}
BlindPcs == {"login_blind_post", "login_blind_home"}

IsSpace(c) == c \in {" ", "nl", "tab"}
IsDigit(c) == c \in {"0", "1", "2", "3", "4", "5", "6", "7", "8", "9"}
DigitValue(c) ==
    CASE c = "0" -> 0 [] c = "1" -> 1 [] c = "2" -> 2 [] c = "3" -> 3 [] c = "4" -> 4
      [] c = "5" -> 5 [] c = "6" -> 6 [] c = "7" -> 7 [] c = "8" -> 8 [] OTHER -> 9

\* int(m.group(1))
RECURSIVE DigitsToInt(_)
DigitsToInt(ds) ==
    IF ds = <<>> THEN 0 ELSE 10 * DigitsToInt(SubSeq(ds, 1, Len(ds) - 1)) + DigitValue(ds[Len(ds)])

\* The pieces the patterns of lines 203-224 and 237 are made of.
Lit(w) == [t |-> "alt", alts |-> <<w>>]
Alt(ws) == [t |-> "alt", alts |-> ws]
Opt(w) == [t |-> "alt", alts |-> <<w, <<>>>>]
Ws == [t |-> "ws", alts |-> <<>>]
Colon == [t |-> "colon", alts |-> <<>>]
Num == [t |-> "num", alts |-> <<>>]
NonDigits04 == [t |-> "nondigits", alts |-> <<>>]

\* The word w is at position i of the text (re.IGNORECASE when fold).
WordAt(text, w, i, fold) ==
    /\ i + Len(w) - 1 <= Len(text)
    /\ \A k \in 1..Len(w) :
         IF fold THEN LowerChar(text[i + k - 1]) = LowerChar(w[k]) ELSE text[i + k - 1] = w[k]

\* The positions a piece can end at when it starts at position i.
Ends(text, piece, i, fold) ==
    CASE piece.t = "alt" ->
           {i + Len(piece.alts[a]) : a \in {b \in DOMAIN piece.alts : WordAt(text, piece.alts[b], i, fold)}}
      [] piece.t = "ws" ->
           {j \in i..(Len(text) + 1) : \A k \in i..(j - 1) : IsSpace(text[k])}
      [] piece.t = "colon" ->
           {i} \cup (IF i <= Len(text) /\ text[i] \in {":", "fwcolon"} THEN {i + 1} ELSE {})
      [] piece.t = "num" ->
           {j \in (i + 1)..(Len(text) + 1) : \A k \in i..(j - 1) : IsDigit(text[k])}
      [] OTHER ->
           {j \in i..(IF i + 4 <= Len(text) + 1 THEN i + 4 ELSE Len(text) + 1) :
                \A k \in i..(j - 1) : ~IsDigit(text[k])}

\* The captures (first, end) of the matches of pat[k..] from position i.
RECURSIVE MatchCaps(_, _, _, _, _, _)
MatchCaps(text, pat, k, i, cap, fold) ==
    IF k > Len(pat) THEN {cap}
    ELSE UNION { MatchCaps(text, pat, k + 1, j, IF pat[k].t = "num" THEN <<i, j>> ELSE cap, fold) :
                    j \in Ends(text, pat[k], i, fold) }

\* int(re.search(pat, text).group(1)), or None: the leftmost match, and
\* \d+ being greedy its longest capture.
Search(text, pat, fold) ==
    LET starts == {i \in 1..(Len(text) + 1) : MatchCaps(text, pat, 1, i, <<0, 0>>, fold) # {}} IN
    IF starts = {} THEN None
    ELSE LET i0 == CHOOSE i \in starts : \A j \in starts : i <= j
             caps == MatchCaps(text, pat, 1, i0, <<0, 0>>, fold)
             c == CHOOSE x \in caps : \A y \in caps : y[2] <= x[2]
         IN  Some(DigitsToInt(SubSeq(text, c[1], c[2] - 1)))

PATTERNS ==
    [total_checkins |-> <<
        <<Lit(<<"yi", "qian", "dao">>), Ws, Colon, Ws, Num>>,
        <<Lit(<<"lei", "ji4", "qian", "dao">>), Ws, Colon, Ws, Num>>,
        <<Lit(<<"t", "o", "t", "a", "l">>), Ws, Lit(<<"c", "h", "e", "c", "k", "i", "n">>), Opt(<<"s">>), Ws, Colon, Ws, Num>> >>,
     consecutive |-> <<
        <<Lit(<<"lian", "xu", "qian", "dao">>), Ws, Colon, Ws, Num, Ws, Lit(<<"tian">>)>>,
        <<Lit(<<"lian", "xu">>), Opt(<<"qian", "dao">>), Ws, Num, Ws, Lit(<<"tian">>)>>,
        <<Lit(<<"c", "o", "n", "s", "e", "c", "u", "t", "i", "v", "e">>), Ws, Lit(<<"d", "a", "y">>), Opt(<<"s">>), Ws, Colon, Ws, Num>> >>,
     total_points |-> <<
        <<Alt(<<<<"ji1", "fen">>, <<"dian", "shu">>, <<"s", "c", "o", "r", "e">>, <<"p", "o", "i", "n", "t", "s">>, <<"p", "o", "i", "n", "t">>>>), Ws, Colon, Ws, Num>>,
        <<Lit(<<"zong", "ji1", "fen">>), Ws, Colon, Ws, Num>>,
        <<Lit(<<"b", "a", "l", "a", "n", "c", "e">>), Ws, Colon, Ws, Num>> >>,
     gained |-> <<
        <<Lit(<<"ben", "ci", "qian", "dao">>), Alt(<<<<"huo", "de">>, <<"jiang", "li">>, <<"jiang", "li", "le">>, <<>>>>), Ws, Num, Ws,
          Alt(<<<<"ji1", "fen">>, <<"dian">>>>)>>,
        <<Lit(<<"huo", "de">>), Opt(<<"le">>), Ws, Num, Ws, Alt(<<<<"ji1", "fen">>, <<"p", "o", "i", "n", "t", "s">>, <<"p", "o", "i", "n", "t">>>>)>>,
        <<Lit(<<"y", "o", "u", " ", "g", "a", "i", "n", "e", "d">>), Ws, Num, Ws, Lit(<<"p", "o", "i", "n", "t">>), Opt(<<"s">>)>> >>]

\* Line 237.
FALLBACK == <<Lit(<<"qian", "dao">>), NonDigits04, Num>>

\* Lines 226-234: the first pattern of the list that matches.
RECURSIVE FirstMatch(_, _, _)
FirstMatch(text, regs, k) ==
    IF k > Len(regs) THEN None
    ELSE IF Search(text, regs[k], TRUE) # None THEN Search(text, regs[k], TRUE)
    ELSE FirstMatch(text, regs, k + 1)

\* str.strip()
RECURSIVE LStrip(_)
LStrip(w) == IF w # <<>> /\ IsSpace(Head(w)) THEN LStrip(Tail(w)) ELSE w
RECURSIVE RStrip(_)
RStrip(w) == IF w # <<>> /\ IsSpace(w[Len(w)]) THEN RStrip(SubSeq(w, 1, Len(w) - 1)) ELSE w
Strip(w) == RStrip(LStrip(w))

\* Line 200, get_text(separator="\n", strip=True) of a document given as
\* the sequence of its text nodes: each is stripped, the empty ones are
\* dropped, the rest are joined by a newline.
RECURSIVE get_text(_)
get_text(nodes) ==
    IF nodes = <<>> THEN <<>>
    ELSE LET first == Strip(Head(nodes))
             rest == get_text(Tail(nodes))
         IN  IF first = <<>> THEN rest
             ELSE IF rest = <<>> THEN first
             ELSE first \o <<"nl">> \o rest

extract_stats_from_html(nodes) ==
    LET text == get_text(nodes)
        res == [k \in STAT_KEYS |-> FirstMatch(text, PATTERNS[k], 1)]
    IN  IF res.total_checkins = None
        THEN [res EXCEPT !.total_checkins = Search(text, FALLBACK, FALSE)]
        ELSE res

\* The phrases the texts are made of.
HeadPhrases == {<<>>, <<"qian", "dao", "cheng", "gong">>}
TotalPhrases == {<<>>, <<"yi", "qian", "dao", " ", "1", "0", " ", "ci">>, <<"lei", "ji4", "qian", "dao", "fwcolon", "7">>}
ConsecPhrases == {<<>>, <<"lian", "xu", "qian", "dao", " ", "3", " ", "tian">>, <<"lian", "xu", " ", "3", " ", "tian">>}
PointsPhrases == {<<>>, <<"zong", "ji1", "fen", " ", "1", "2", "0">>, <<"P", "o", "i", "n", "t", "s", ":", " ", "1", "2", "0">>}
GainedPhrases == {<<>>, <<"ben", "ci", "huo", "de", " ", "5", " ", "fen">>, <<"ben", "ci", "qian", "dao", "huo", "de", " ", "5", " ", "ji1", "fen">>, <<"huo", "de", "le", " ", "5", " ", "ji1", "fen">>}

\* The phrases joined by a full-width comma.
RECURSIVE JoinPhrases(_)
JoinPhrases(ps) ==
    IF ps = <<>> THEN <<>>
    ELSE LET rest == JoinPhrases(Tail(ps)) IN
         IF Head(ps) = <<>> THEN rest
         ELSE IF rest = <<>> THEN Head(ps)
         ELSE Head(ps) \o <<"fwcomma">> \o rest

\* The text of the specification's example.
SPEC_TEXT == <<"qian", "dao", "cheng", "gong", "fwcomma", "yi", "qian", "dao", " ", "1", "0", " ", "ci", "fwcomma", "lian", "xu", "qian", "dao", " ", "3", " ", "tian", "fwcomma", "zong", "ji1", "fen", " ", "1", "2", "0", "fwcomma", "ben", "ci", "huo", "de", " ", "5", " ", "fen">>

Texts ==
    {JoinPhrases(<<h, a, b, c, d>>) :
        h \in HeadPhrases, a \in TotalPhrases, b \in ConsecPhrases, c \in PointsPhrases, d \in GainedPhrases}

InitStats ==
    /\ pc = "stats_input"
    /\ InitRun
    /\ doc = <<>>
    /\ form_res = FormNotFound
    /\ payloads = <<>>
    /\ html \in {<<tx>> : tx \in Texts} \cup {<<<<" ">> \o tx \o <<" ">>, <<"nl">>>> : tx \in Texts}
    /\ stats_out = NoStats

ExtractStats ==
    /\ pc = "stats_input"
    /\ stats_out' = extract_stats_from_html(html)
    /\ pc' = "stats_done"
    /\ UNCHANGED <<net, runVars, loginVars, loopVars, stepVars, doc, form_res, payloads, html>>

NextStats == ExtractStats

SpecStats == InitStats /\ [][NextStats]_vars

\* -------------------------------------------- properties of SpecStats
\* C8: on the specification's example text extract_stats_from_html returns
\* total_checkins = 10, consecutive = 3, total_points = 120 and gained = 5.
C8_SpecExample ==
    pc = "stats_done" /\ get_text(html) = SPEC_TEXT =>
        stats_out = [total_checkins |-> Some(10), consecutive |-> Some(3),
                     total_points |-> Some(120), gained |-> Some(5)]

====
